---- MODULE Spec2Model ----
(***************************************************************************)
(* A model of priceworm-dashboard.py: the CryptoDataFetcher object, the    *)
(* poll task (main's first fetch_all_data, then scheduled_fetch) and the   *)
(* subscription task (setup_liquidation_websocket), which asyncio runs on  *)
(* one thread, and the two files the program writes.                       *)
(*                                                                         *)
(* Python values that may be None are records: None, Num(x), Iso(t).  A    *)
(* tick's local variables (price_data, funding_data, est_time,             *)
(* market_data) are variables of the model, None outside a tick.           *)
(***************************************************************************)
EXTENDS Integers, Sequences, FiniteSets, TLC

VARIABLES
    procStatus,          \* "running" | "crashed" (the process died on an uncaught exception)
    looping,             \* FALSE during main's first fetch, TRUE once both tasks are created
    pollPc,              \* where the poll task stands
    wsPc,                \* where the subscription task stands
    reference_643am,     \* self.reference_643am
    recent_liquidations, \* self.recent_liquidations
    refFile,             \* content of reference_prices.json
    marketFile,          \* content of market_data.json
    bootFile,            \* content of reference_prices.json found by __init__
    price_data,          \* fetch_all_data's price_data
    funding_data,        \* fetch_all_data's funding_data
    est_time,            \* capture_643am_price's est_time
    market_data,         \* the MarketData fetch_all_data returned
    log,                 \* what the poll task printed last about its tick
    refLog,              \* what the last save_reference_prices call printed
    message,             \* the message the subscription loop handled last
    received             \* how many messages the provider has delivered

vars == <<procStatus, looping, pollPc, wsPc, reference_643am, recent_liquidations,
          refFile, marketFile, bootFile, price_data, funding_data, est_time,
          market_data, log, refLog, message, received>>

pollVars == <<procStatus, looping, pollPc, reference_643am, refFile, marketFile,
              bootFile, price_data, funding_data, est_time, market_data, log, refLog>>

wsVars == <<wsPc, recent_liquidations, message, received>>

----------------------------------------------------------------------------
(* Python values *)

None == [t |-> "None"]

Num(x) == [t |-> "num", v |-> x]

\* a str that spells the number x, as Binance sends quantities and prices
NumStr(x) == [t |-> "numstr", v |-> x]

\* a str that spells no number
BadStr == [t |-> "str"]

\* a str holding the text s
Text(s) == [t |-> "text", v |-> s]

\* a key that is not in the dict
Missing == [t |-> "missing"]

----------------------------------------------------------------------------
(* Program constants *)

\* "Keep only last 20 liquidations"
MaxHistory == 20

\* "Process significant liquidations (>$100k)"
Threshold == 100000

CaptureHour == 6

CaptureMinute == 43

crypto_map == [BTCUSDT |-> "bitcoin", ETHUSDT |-> "ethereum"]

Cryptos == {"bitcoin", "ethereum"}

----------------------------------------------------------------------------
(* Bounds of the model *)

\* messages the provider delivers in the full system (Spec)
MaxReceived == 1

\* messages the provider delivers after the prefilled ones (SpecLiq)
MaxBurst == 3

\* BUY events among the prefilled ones (SpecLiq)
MaxPrefillBuy == 1

----------------------------------------------------------------------------
(* The liquidation stream: setup_liquidation_websocket, process_liquidation *)

\* the provider's clock: the event time T, in ms, of the n-th message
EventTime(n) == n * 1000

\* a forceOrder message: {"o": {"s":..,"S":..,"q":..,"p":..,"T":..}}
Order(s, S, q, p, T) ==
    [json |-> "object", has_o |-> TRUE, o |-> [s |-> s, S |-> S, q |-> q, p |-> p, T |-> T]]

\* bytes that are not JSON
NotJson == [json |-> "invalid"]

\* a JSON number: a payload of the wrong shape
JsonNumber == [json |-> "number"]

\* a JSON object without the key "o", e.g. a subscription acknowledgement
NoOrder == [json |-> "object", has_o |-> FALSE]

\* the well-formed messages the provider may send as its n-th
WellFormed(n) ==
    { Order(Text(s), Text(S), NumStr(q), NumStr(p), Num(EventTime(n))) :
        s \in {"BTCUSDT", "ETHUSDT", "XRPUSDT"}, S \in {"SELL", "BUY"},
        q \in {1, 2}, p \in {50000, 60000} }

\* the malformed messages the provider may send as its n-th
Malformed(n) ==
    { NotJson, JsonNumber,
      Order(Missing, Text("SELL"), NumStr(2), NumStr(60000), Num(EventTime(n))),
      Order(Text("BTCUSDT"), Text("SELL"), Missing, NumStr(60000), Num(EventTime(n))),
      Order(Text("BTCUSDT"), Text("SELL"), NumStr(2), BadStr, Num(EventTime(n))),
      Order(Text("BTCUSDT"), Text("BUY"), NumStr(2), NumStr(60000), BadStr) }

Messages(n) == WellFormed(n) \cup Malformed(n) \cup {NoOrder}

\* what the provider may send, message by message
Stream == [n \in 1..(MaxHistory + MaxBurst) |-> Messages(n)]

\* the messages of the full system: one of each kind
FewMessages(n) ==
    { Order(Text("BTCUSDT"), Text("SELL"), NumStr(2), NumStr(60000), Num(EventTime(n))),
      NotJson }

FewStream == [n \in 1..MaxReceived |-> FewMessages(n)]

\* float(x): defined on numbers and on strings that spell one
FloatOk(x) == x.t \in {"num", "numstr"}

Float(x) == x.v

\* datetime.fromtimestamp(T / 1000).strftime('%H:%M:%S') on a host whose zone
\* is UTC: the time of day, the date and the milliseconds dropped
FormatTime(T) ==
    LET s == T \div 1000
    IN  <<(s \div 3600) % 24, (s \div 60) % 60, s % 60>>

\* json.loads(message) raises json.JSONDecodeError (lines 199, 215)
JsonDecodeError(msg) == msg.json = "invalid"

\* lines 200-209 raise another exception: 'o' in a number (TypeError), a
\* missing key (KeyError), float() of a non-number (ValueError, TypeError),
\* T / 1000 of a non-number (TypeError)
RaisesOther(msg) ==
    \/ msg.json = "number"
    \/ /\ msg.json = "object"
       /\ msg.has_o
       /\ \/ msg.o.s = Missing
          \/ msg.o.S = Missing
          \/ ~FloatOk(msg.o.q)
          \/ ~FloatOk(msg.o.p)
          \/ msg.o.T.t # "num"

\* the message is a liquidation the code can build (lines 200-209)
IsLiquidation(msg) ==
    /\ msg.json = "object"
    /\ msg.has_o
    /\ ~RaisesOther(msg)

\* LiquidationEvent(...) of lines 201-209
LiquidationEvent(msg) ==
    [symbol   |-> msg.o.s.v,
     side     |-> msg.o.S.v,
     quantity |-> Float(msg.o.q),
     price    |-> Float(msg.o.p),
     value    |-> Float(msg.o.q) * Float(msg.o.p),
     time     |-> FormatTime(msg.o.T.v),
     exchange |-> "Binance"]

\* line 212 with >= for >
SignificantOrEqual(liquidation) == liquidation.value >= Threshold

\* line 212
Significant(liquidation) == liquidation.value > Threshold

\* xs[-n:]
LastN(xs, n) ==
    IF Len(xs) <= n THEN xs ELSE SubSeq(xs, Len(xs) - n + 1, Len(xs))

\* lines 235-236 with the slice taken from the wrong end
TrimOldestKept(xs) ==
    IF Len(xs) > MaxHistory THEN SubSeq(xs, 1, MaxHistory) ELSE xs

\* lines 235-236: keep only the last 20 liquidations
Trim(xs) ==
    IF Len(xs) > MaxHistory THEN LastN(xs, MaxHistory) ELSE xs

\* process_liquidation: self.recent_liquidations afterwards
process_liquidation(liqs, liquidation) ==
    IF liquidation.symbol \in DOMAIN crypto_map
    THEN LET crypto == crypto_map[liquidation.symbol]
         IN  [liqs EXCEPT ![crypto] = Trim(Append(liqs[crypto], liquidation))]
    ELSE liqs

\* the inner try of the loop body without its handlers: an exception ends the
\* "async for", the outer handler catches it and the coroutine returns
AfterMessageNoHandler(msg) ==
    IF JsonDecodeError(msg) \/ RaisesOther(msg) THEN "returned" ELSE "streaming"

\* where the subscription task stands after the loop body handled msg: both
\* handlers (lines 215-218) stay in the loop
AfterMessage(msg) == "streaming"

\* one iteration of "async for message in websocket" (lines 197-218)
OnMessage(msg) ==
    /\ message' = msg
    /\ received' = received + 1
    /\ wsPc' = AfterMessage(msg)
    /\ recent_liquidations' =
         IF IsLiquidation(msg) /\ Significant(LiquidationEvent(msg))
         THEN process_liquidation(recent_liquidations, LiquidationEvent(msg))
         ELSE recent_liquidations

----------------------------------------------------------------------------
(* Rational numbers <<n, d>>, d > 0: the values of the program's floats.   *)
(* Each operator binds its arguments' values once ({.. : x \in {x0}}), so   *)
(* that a nested expression is evaluated once however often it is used.     *)

\* the element of a one-element set
Only(S) == CHOOSE x \in S : TRUE

RECURSIVE Gcd(_, _)
Gcd(a0, b0) == Only({ IF b = 0 THEN a ELSE Gcd(b, a % b) : a \in {a0}, b \in {b0} })

Abs(x) == IF x < 0 THEN -x ELSE x

\* n / d in lowest terms
Q(n0, d0) ==
    Only({ LET g == Gcd(Abs(n), Abs(d))
               s == IF d < 0 THEN -1 ELSE 1
           IN  <<(s * n) \div g, (s * d) \div g>> : n \in {n0}, d \in {d0} })

QInt(n) == <<n, 1>>

QAdd(a0, b0) ==
    Only({ Q(a[1] * b[2] + b[1] * a[2], a[2] * b[2]) : a \in {a0}, b \in {b0} })

QSub(a0, b0) ==
    Only({ Q(a[1] * b[2] - b[1] * a[2], a[2] * b[2]) : a \in {a0}, b \in {b0} })

QMul(a0, b0) == Only({ Q(a[1] * b[1], a[2] * b[2]) : a \in {a0}, b \in {b0} })

\* a / b for b # 0
QDiv(a0, b0) == Only({ Q(a[1] * b[2], a[2] * b[1]) : a \in {a0}, b \in {b0} })

QLess(a0, b0) == Only({ a[1] * b[2] < b[1] * a[2] : a \in {a0}, b \in {b0} })

RECURSIVE QSum(_)
QSum(qs) == IF qs = <<>> THEN QInt(0) ELSE QAdd(Head(qs), QSum(Tail(qs)))

\* line 303 rounding down, as math.floor does
RoundDown(x0) == Only({ x[1] \div x[2] : x \in {x0} })

\* round(x) of Python 3: to the nearest integer, a tie to the even one
Round(x0) ==
    Only({ LET lo == x[1] \div x[2]
               r2 == 2 * (x[1] - lo * x[2])
           IN  IF r2 < x[2] THEN lo
               ELSE IF r2 > x[2] THEN lo + 1
               ELSE IF lo % 2 = 0 THEN lo ELSE lo + 1 : x \in {x0} })

----------------------------------------------------------------------------
(* The providers' answers: get_price_data, get_funding_rates *)

\* PriceData; volume, market_cap and timestamp are carried along unread and
\* are left out
PriceData(price, change_24h) == [price |-> price, change_24h |-> change_24h]

\* what get_price_data may return: None on any error (lines 121-123)
PriceReplies ==
    { None,
      [bitcoin |-> PriceData(50000, 2), ethereum |-> PriceData(3000, -1)],
      [bitcoin |-> PriceData(0, 0), ethereum |-> PriceData(3000, 2)] }

\* FundingData()
FundingData(binance, bybit, average) ==
    [binance |-> binance, bybit |-> bybit, okx |-> None, average |-> average]

\* lines 174-180 dividing by len(rates)
AverageOverAll(rates) ==
    LET valid_rates == SelectSeq(rates, LAMBDA r : r # None)
        values == [i \in 1..Len(valid_rates) |-> valid_rates[i].v]
    IN  IF Len(valid_rates) > 0
        THEN Num(QDiv(QSum(values), QInt(Len(rates))))
        ELSE None

\* lines 174-180: the mean of the rates that are not None
Average(rates) ==
    LET valid_rates == SelectSeq(rates, LAMBDA r : r # None)
        values == [i \in 1..Len(valid_rates) |-> valid_rates[i].v]
    IN  IF Len(valid_rates) > 0
        THEN Num(QDiv(QSum(values), QInt(Len(valid_rates))))
        ELSE None

\* lines 128-183: the dict get_funding_rates returns, from what each
\* exchange gave for each instrument (None: the request failed or was not
\* made or came back empty)
get_funding_rates(binance, bybit) ==
    [crypto \in Cryptos |->
        FundingData(binance[crypto], bybit[crypto],
                    Average(<<binance[crypto], bybit[crypto]>>))]

\* an exchange's answers: both rates, or an exception on the first request
BinanceReplies ==
    { [bitcoin |-> Num(Q(5, 1000)), ethereum |-> Num(Q(30, 1000))] }

BybitReplies ==
    { [bitcoin |-> Num(Q(15, 1000)), ethereum |-> Num(Q(10, 1000))],
      [bitcoin |-> None, ethereum |-> None] }

\* what get_funding_rates may return: None on an error outside the
\* per-exchange handlers (lines 185-187)
FundingReplies ==
    {None} \cup { get_funding_rates(b, y) : b \in BinanceReplies, y \in BybitReplies }

----------------------------------------------------------------------------
(* The reference anchor and its file *)

\* datetime.now().astimezone().replace(tzinfo=None): the local wall clock
Clock(hour, minute, second) == [hour |-> hour, minute |-> minute, second |-> second]

Times ==
    { Clock(6, 42, 59), Clock(6, 43, 0), Clock(6, 43, 59), Clock(6, 44, 0),
      Clock(18, 43, 0) }

\* est_time.isoformat(), the date left out
Iso(c) == [t |-> "iso", v |-> <<c.hour, c.minute, c.second>>]

\* lines 68-72
NoReference ==
    [shape |-> "dict", bitcoin |-> None, ethereum |-> None, timestamp |-> None]

\* line 244 with the minute compared by >=
IsCaptureTimeLate(c) == c.hour = CaptureHour /\ c.minute >= CaptureMinute

\* line 244
IsCaptureTime(c) == c.hour = CaptureHour /\ c.minute = CaptureMinute

\* lines 245-249
Captured(pd, c) ==
    [shape     |-> "dict",
     bitcoin   |-> Num(pd.bitcoin.price),
     ethereum  |-> Num(pd.ethereum.price),
     timestamp |-> Iso(c)]

\* json's encoding of a value: None becomes null
ToJson(x) == IF x = None THEN [t |-> "null"] ELSE x

\* json's decoding of a value: null becomes None
FromJson(x) == IF x = [t |-> "null"] THEN None ELSE x

\* the JSON document json.dump writes for a dict or list of values
JsonDump(value) ==
    IF value.shape = "dict"
    THEN [k \in DOMAIN value |-> IF k = "shape" THEN "dict" ELSE ToJson(value[k])]
    ELSE value

\* the value json.load returns for a document
JsonLoad(doc) ==
    IF doc.shape = "dict"
    THEN [k \in DOMAIN doc |-> IF k = "shape" THEN "dict" ELSE FromJson(doc[k])]
    ELSE doc

\* file contents: no file; zero bytes (just opened with 'w'); a proper prefix
\* of a document's text; a whole document; bytes that are not JSON
Absent == [kind |-> "absent"]

Empty == [kind |-> "empty"]

Partial(doc) == [kind |-> "partial", doc |-> doc]

Whole(doc) == [kind |-> "json", doc |-> doc]

Garbage == [kind |-> "garbage"]

\* a file of this content holds one whole JSON document
Parses(file) == file.kind = "json"

\* line 309 writing the prices without the timestamp
ReferenceDocNoTimestamp(ref) ==
    IF ref.shape = "dict"
    THEN [k \in DOMAIN ref |->
            IF k = "shape" THEN "dict"
            ELSE IF k = "timestamp" THEN [t |-> "null"] ELSE ToJson(ref[k])]
    ELSE ref

\* what save_reference_prices writes (line 309)
ReferenceDoc(ref) == JsonDump(ref)

\* load_reference_prices: self.reference_643am afterwards.  No file: nothing
\* is read.  json.load raises: caught, nothing is assigned.  Otherwise
\* whatever json.load returned is assigned, unchecked (line 318)
load_reference_prices(file, ref) ==
    IF Parses(file) THEN JsonLoad(file.doc) ELSE ref

\* reference_prices.json as the program may find it at startup
StoredReferences ==
    { Absent, Garbage,
      Whole(JsonDump(Captured([bitcoin |-> PriceData(50000, 2),
                               ethereum |-> PriceData(3000, -1)], Clock(6, 43, 0)))),
      Whole([shape |-> "list"]),
      Whole([shape |-> "dict", bitcoin |-> Num(50000), ethereum |-> [t |-> "null"],
             timestamp |-> [t |-> "null"]]) }

\* a stored file that holds an anchor as the program writes it
WellFormedReference(file) ==
    /\ Parses(file)
    /\ file.doc.shape = "dict"
    /\ DOMAIN file.doc = {"shape", "bitcoin", "ethereum", "timestamp"}
    /\ file.doc.bitcoin.t = "num"
    /\ file.doc.ethereum.t = "num"
    /\ file.doc.timestamp.t = "iso"

----------------------------------------------------------------------------
(* Scoring: calculate_change_from_643am, calculate_sentiment_score *)

\* calculate_change_from_643am raises: .get of a list (AttributeError), a
\* reference price that is no number (TypeError) or is zero
\* (ZeroDivisionError)
ChangeRaises(ref, crypto) ==
    \/ ref.shape # "dict"
    \/ /\ ref[crypto] # None
       /\ \/ ref[crypto].t # "num"
          \/ ref[crypto].v = 0

\* calculate_change_from_643am, where it does not raise
calculate_change_from_643am(ref, current_price, crypto) ==
    IF ref[crypto] = None
    THEN None
    ELSE Num(QMul(QDiv(QInt(current_price - ref[crypto].v), QInt(ref[crypto].v)),
                  QInt(100)))

\* sum(1 for liq in liqs if liq.side == side)
CountSide(liqs, side) == Cardinality({i \in 1..Len(liqs) : liqs[i].side = side})

\* lines 271-276 with the ratio taken of the long liquidations
LiquidationTermOfLongs(btc_liqs) ==
    LET long_liqs == CountSide(btc_liqs, "SELL")
        short_liqs == CountSide(btc_liqs, "BUY")
    IN  IF Len(btc_liqs) > 0 /\ long_liqs + short_liqs > 0
        THEN QMul(QSub(Q(long_liqs, long_liqs + short_liqs), Q(1, 2)), QInt(60))
        ELSE QInt(0)

\* lines 271-276
LiquidationTerm(btc_liqs) ==
    LET long_liqs == CountSide(btc_liqs, "SELL")
        short_liqs == CountSide(btc_liqs, "BUY")
    IN  IF Len(btc_liqs) > 0 /\ long_liqs + short_liqs > 0
        THEN QMul(QSub(Q(short_liqs, long_liqs + short_liqs), Q(1, 2)), QInt(60))
        ELSE QInt(0)

\* "average or 0"
OrZero(x) == IF x = None THEN QInt(0) ELSE x.v

\* lines 279-288 without the two caps of lines 283-286
FundingTermUncapped(fd) ==
    LET btc_funding == OrZero(fd.bitcoin.average)
        eth_funding == OrZero(fd.ethereum.average)
        avg_funding == QDiv(QAdd(btc_funding, eth_funding), QInt(2))
    IN  QMul(QSub(Q(15, 1000), avg_funding), QInt(1250))

\* lines 279-288
FundingTerm(fd) ==
    LET btc_funding == OrZero(fd.bitcoin.average)
        eth_funding == OrZero(fd.ethereum.average)
        avg_funding == QDiv(QAdd(btc_funding, eth_funding), QInt(2))
    IN  IF QLess(Q(2, 100), avg_funding) THEN QInt(-25)
        ELSE IF QLess(avg_funding, Q(1, 100)) THEN QInt(25)
        ELSE QMul(QSub(Q(15, 1000), avg_funding), QInt(1250))

\* lines 291-293
MomentumTerm(pd) ==
    LET btc_momentum == IF pd.bitcoin.change_24h > 0 THEN Q(25, 2) ELSE Q(-25, 2)
        eth_momentum == IF pd.ethereum.change_24h > 0 THEN Q(25, 2) ELSE Q(-25, 2)
    IN  QAdd(btc_momentum, eth_momentum)

\* lines 296-301
ReferenceTerm(pd, ref) ==
    LET btc_643_change == calculate_change_from_643am(ref, pd.bitcoin.price, "bitcoin")
        eth_643_change == calculate_change_from_643am(ref, pd.ethereum.price, "ethereum")
    IN  IF btc_643_change # None /\ eth_643_change # None
        THEN LET avg_643_change == QDiv(QAdd(btc_643_change.v, eth_643_change.v), QInt(2))
             IN  IF QLess(QInt(0), avg_643_change) THEN QInt(20) ELSE QInt(-20)
        ELSE QInt(0)

\* calculate_sentiment_score raises (only its calls of
\* calculate_change_from_643am can)
ScoreRaises(ref) == ChangeRaises(ref, "bitcoin") \/ ChangeRaises(ref, "ethereum")

\* calculate_sentiment_score raises on data that is None: funding_data
\* ['bitcoin'] (line 279), price_data['bitcoin'] (line 291) are TypeErrors
DataRaises(pd, fd) == pd = None \/ fd = None

\* calculate_sentiment_score, where it does not raise
calculate_sentiment_score(pd, fd, liqs, ref) ==
    Round(QSum(<<LiquidationTerm(liqs.bitcoin), FundingTerm(fd), MomentumTerm(pd),
                 ReferenceTerm(pd, ref)>>))

\* asdict(liq)
AsDict(liq) == [k \in DOMAIN liq |-> liq[k]]

\* a reference to the list self.recent_liquidations[crypto] itself
LiveList(crypto) == <<[alias |-> crypto]>>

\* the items of a list held by a snapshot: a list of its own holds what was
\* put in it, a reference to a live history holds what the history holds now
ListContents(x, liqs) ==
    IF x \in {LiveList(c) : c \in Cryptos} THEN liqs[x[1].alias] ELSE x

\* lines 341-344 handing the histories themselves to the snapshot
LiquidationsAliased(liqs) == [c \in Cryptos |-> LiveList(c)]

\* lines 341-344: liquidations_dict, new lists of new dicts
LiquidationsDict(liqs) ==
    [c \in Cryptos |-> [i \in 1..Len(liqs[c]) |-> AsDict(liqs[c][i])]]

\* lines 335-354 with the score worked out before capture_643am_price ran,
\* from the anchor as it was when the tick began
MarketDataScoredFirst(pd, fd, liqs, ref) ==
    [bitcoin         |-> pd.bitcoin,
     ethereum        |-> pd.ethereum,
     funding_rates   |-> fd,
     liquidations    |-> LiquidationsDict(liqs),
     sentiment_score |-> calculate_sentiment_score(pd, fd, liqs, reference_643am),
     reference_643am |-> ref]

\* lines 341-354: the MarketData fetch_all_data builds (timestamp left out)
MarketData(pd, fd, liqs, ref) ==
    [bitcoin         |-> pd.bitcoin,
     ethereum        |-> pd.ethereum,
     funding_rates   |-> fd,
     liquidations    |-> LiquidationsDict(liqs),
     sentiment_score |-> calculate_sentiment_score(pd, fd, liqs, ref),
     reference_643am |-> ref]

\* what save_data_to_json writes: json.dump(asdict(data), ...)
MarketDoc(data) ==
    [data EXCEPT
       !.funding_rates = [c \in Cryptos |->
                            [k \in DOMAIN data.funding_rates[c] |->
                               ToJson(data.funding_rates[c][k])]],
       !.reference_643am = JsonDump(data.reference_643am)]

----------------------------------------------------------------------------
(* The state after CryptoDataFetcher() (lines 59-83, 373) *)

Init ==
    /\ \E file \in StoredReferences :
          /\ bootFile = file
          /\ refFile = file
          /\ reference_643am = load_reference_prices(file, NoReference)
    /\ recent_liquidations = [c \in Cryptos |-> <<>>]
    /\ marketFile = Absent
    /\ procStatus = "running"
    /\ looping = FALSE
    /\ pollPc = "fetch"
    /\ wsPc = "idle"
    /\ price_data = None
    /\ funding_data = None
    /\ est_time = None
    /\ market_data = None
    /\ log = "none"
    /\ refLog = "none"
    /\ message = None
    /\ received = 0

----------------------------------------------------------------------------
(* The poll task: main's first fetch_all_data (lines 376-378), then          *)
(* scheduled_fetch (lines 381-390).  pollPc: "fetch" suspended in an await   *)
(* (the sleep of line 387 or 390, then the providers of lines 327-328),      *)
(* "ref_dump" and "snap_dump" between open(.., 'w') and the end of           *)
(* json.dump, "ticked" at the end of a tick of the loop, "spawn" at the end  *)
(* of main's first fetch, "dead".                                            *)

\* a loop without the try/except of lines 383-390
NeverCaught == FALSE

\* an exception out of fetch_all_data is caught: by scheduled_fetch's
\* handler (lines 388-390); main's first call (line 376) has none
ExceptionCaught == looping

\* where the tick ends: before the loop's sleep (line 387), or back in main
AfterTick == IF looping THEN "ticked" ELSE "spawn"

\* the rest of the tick once capture_643am_price is done: lines 338-360
\* score and build the MarketData, an exception leaving fetch_all_data;
\* then save_data_to_json (lines 378, 386) opens market_data.json with 'w',
\* which truncates it, or open raises (caught, line 368)
Finish(pd, fd, ref) ==
    IF DataRaises(pd, fd) \/ ScoreRaises(ref)
    THEN /\ market_data' = None
         /\ UNCHANGED marketFile
         /\ IF ExceptionCaught
            THEN /\ log' = "error"
                 /\ pollPc' = "ticked"
                 /\ procStatus' = "running"
            ELSE /\ log' = "traceback"
                 /\ pollPc' = "dead"
                 /\ procStatus' = "crashed"
    ELSE /\ market_data' = MarketData(pd, fd, recent_liquidations, ref)
         /\ procStatus' = "running"
         /\ \/ /\ marketFile' = Empty
               /\ log' = "built"
               /\ pollPc' = "snap_dump"
            \/ /\ log' = "save_error"
               /\ pollPc' = AfterTick
               /\ UNCHANGED marketFile

\* line 330 taking a partial funding result for a missing one
PartialDataMissing(pd, fd) ==
    pd = None \/ fd = None \/ fd.bitcoin.bybit = None \/ fd.bitcoin.binance = None

\* line 330 testing the prices only
OnlyPriceMissing(pd, fd) == pd = None

\* line 330: "not price_data or not funding_data"
RequiredDataMissing(pd, fd) == pd = None \/ fd = None

\* lines 327-335: the providers have answered; without both answers the tick
\* is skipped; otherwise capture_643am_price reads the clock and, at 6:43,
\* overwrites the anchor and opens its file with 'w', which truncates it, or
\* open raises (caught, line 310)
Fetched(prices, fundings, times) ==
    /\ procStatus = "running"
    /\ pollPc = "fetch"
    /\ \E pd \in prices, fd \in fundings :
          /\ price_data' = pd
          /\ funding_data' = fd
          /\ IF RequiredDataMissing(pd, fd)
             THEN /\ est_time' = None
                  /\ market_data' = None
                  /\ log' = "skipped"
                  /\ pollPc' = AfterTick
                  /\ UNCHANGED <<reference_643am, refFile, refLog, procStatus, marketFile>>
             ELSE \E now \in times :
                  /\ est_time' = now
                  /\ IF IsCaptureTime(now)
                     THEN /\ reference_643am' = Captured(pd, now)
                          /\ \/ /\ refFile' = Empty
                                /\ refLog' = "writing"
                                /\ market_data' = None
                                /\ log' = "none"
                                /\ pollPc' = "ref_dump"
                                /\ UNCHANGED <<procStatus, marketFile>>
                             \/ /\ refLog' = "error"
                                /\ UNCHANGED refFile
                                /\ Finish(pd, fd, reference_643am')
                     ELSE /\ UNCHANGED <<reference_643am, refFile, refLog>>
                          /\ Finish(pd, fd, reference_643am)
    /\ UNCHANGED <<looping, bootFile, wsVars>>

\* save_reference_prices, line 309: json.dump writes the whole document, or
\* raises part-way (caught, line 310); then fetch_all_data goes on
RefDump ==
    /\ procStatus = "running"
    /\ pollPc = "ref_dump"
    /\ \/ /\ refFile' = Whole(ReferenceDoc(reference_643am))
          /\ refLog' = "saved"
       \/ /\ refFile' = Partial(ReferenceDoc(reference_643am))
          /\ refLog' = "error"
    /\ Finish(price_data, funding_data, reference_643am)
    /\ UNCHANGED <<looping, reference_643am, bootFile, price_data, funding_data,
                   est_time, wsVars>>

\* save_data_to_json, line 366: json.dump writes the whole document, or
\* raises part-way (caught, line 368)
SnapDump ==
    /\ procStatus = "running"
    /\ pollPc = "snap_dump"
    /\ \/ /\ marketFile' = Whole(MarketDoc(market_data))
          /\ log' = "saved"
       \/ /\ marketFile' = Partial(MarketDoc(market_data))
          /\ log' = "save_error"
    /\ pollPc' = AfterTick
    /\ UNCHANGED <<procStatus, looping, reference_643am, refFile, bootFile, price_data,
                   funding_data, est_time, market_data, refLog, wsVars>>

\* lines 393-401: main creates both tasks and awaits them
Spawn ==
    /\ procStatus = "running"
    /\ pollPc = "spawn"
    /\ looping' = TRUE
    /\ pollPc' = "fetch"
    /\ wsPc' = "connecting"
    /\ price_data' = None
    /\ funding_data' = None
    /\ est_time' = None
    /\ market_data' = None
    /\ log' = "none"
    /\ UNCHANGED <<procStatus, reference_643am, refFile, marketFile, bootFile, refLog,
                   recent_liquidations, message, received>>

\* lines 387, 390, 384: the loop sleeps, then calls fetch_all_data again,
\* which awaits the providers
Sleep ==
    /\ procStatus = "running"
    /\ pollPc = "ticked"
    /\ pollPc' = "fetch"
    /\ price_data' = None
    /\ funding_data' = None
    /\ est_time' = None
    /\ market_data' = None
    /\ log' = "none"
    /\ UNCHANGED <<procStatus, looping, reference_643am, refFile, marketFile, bootFile,
                   refLog, wsVars>>

----------------------------------------------------------------------------
(* The subscription task: setup_liquidation_websocket (lines 189-221).  It  *)
(* runs only while the poll task is suspended in an await.                  *)

PollSuspended == procStatus = "running" /\ looping /\ pollPc = "fetch"

\* line 194: the connection is made, or connect raises (caught, line 220) and
\* the coroutine returns
Connect ==
    /\ PollSuspended
    /\ wsPc = "connecting"
    /\ wsPc' \in {"streaming", "returned"}
    /\ UNCHANGED <<pollVars, recent_liquidations, message, received>>

\* lines 197-218: the provider delivers its next message, one of stream[n]
\* for the n-th
Message(limit, stream) ==
    /\ PollSuspended
    /\ wsPc = "streaming"
    /\ received < limit
    /\ \E msg \in stream[received + 1] : OnMessage(msg)
    /\ UNCHANGED pollVars

\* the connection is lost: the "async for" ends or raises (caught, line 220)
\* and the coroutine returns; nothing restarts it
Closed ==
    /\ PollSuspended
    /\ wsPc = "streaming"
    /\ wsPc' = "returned"
    /\ UNCHANGED <<pollVars, recent_liquidations, message, received>>

----------------------------------------------------------------------------
(* Specifications *)

PollNext ==
    \/ Fetched(PriceReplies, FundingReplies, Times)
    \/ RefDump
    \/ SnapDump
    \/ Spawn
    \/ Sleep

Next ==
    \/ PollNext
    \/ Connect
    \/ Message(MaxReceived, FewStream)
    \/ Closed

\* the whole program
Spec == Init /\ [][Next]_vars

\* the poll task with one answer of each kind from the providers
FewPriceReplies ==
    { None, [bitcoin |-> PriceData(50000, 2), ethereum |-> PriceData(3000, -1)] }

FewFundingReplies ==
    { None,
      get_funding_rates([bitcoin |-> Num(Q(5, 1000)), ethereum |-> Num(Q(30, 1000))],
                        [bitcoin |-> None, ethereum |-> None]) }

FewTimes == { Clock(6, 43, 0), Clock(6, 44, 0) }

FewPollNext ==
    \/ Fetched(FewPriceReplies, FewFundingReplies, FewTimes)
    \/ RefDump
    \/ SnapDump
    \/ Spawn
    \/ Sleep

FewNext ==
    \/ FewPollNext
    \/ Connect
    \/ Message(MaxReceived, FewStream)
    \/ Closed

\* the whole program under the scheduling asyncio gives: a task that can run
\* is run, the providers answer and connect() ends; whether the provider
\* sends a message or drops the connection is up to the provider
FairSpec == Init /\ [][FewNext]_vars /\ WF_vars(FewPollNext) /\ WF_vars(Connect)

----------------------------------------------------------------------------
(* The liquidation stream on its own, from a history one short of full *)

\* the provider's n-th message of a stream on one symbol whose first nBuy
\* liquidations are short liquidations
StreamMessage(sym, nBuy, n) ==
    Order(Text(sym), Text(IF n <= nBuy THEN "BUY" ELSE "SELL"), NumStr(2), NumStr(60000),
          Num(EventTime(n)))

\* self.recent_liquidations after the first n messages of that stream
RECURSIVE AfterStream(_, _, _)
AfterStream(sym, nBuy, n) ==
    IF n = 0
    THEN [c \in Cryptos |-> <<>>]
    ELSE process_liquidation(AfterStream(sym, nBuy, n - 1),
                             LiquidationEvent(StreamMessage(sym, nBuy, n)))

\* the program with no stored anchor, its first fetch skipped, connected, and
\* MaxHistory - 1 liquidations of one symbol handled
InitLiq ==
    /\ \E sym \in DOMAIN crypto_map, nBuy \in 0..MaxPrefillBuy :
          /\ recent_liquidations = AfterStream(sym, nBuy, MaxHistory - 1)
          /\ message = StreamMessage(sym, nBuy, MaxHistory - 1)
    /\ received = MaxHistory - 1
    /\ wsPc = "streaming"
    /\ bootFile = Absent
    /\ refFile = Absent
    /\ reference_643am = NoReference
    /\ marketFile = Absent
    /\ procStatus = "running"
    /\ looping = TRUE
    /\ pollPc = "fetch"
    /\ price_data = None
    /\ funding_data = None
    /\ est_time = None
    /\ market_data = None
    /\ log = "none"
    /\ refLog = "none"

NextLiq ==
    \/ Message(MaxHistory - 1 + MaxBurst, Stream)
    \/ Closed

SpecLiq == InitLiq /\ [][NextLiq]_vars

----------------------------------------------------------------------------
(* Both tasks from that history on, the loop's snapshot kept while it sleeps *)

\* lines 386-387, 384: the tick is over and the loop sleeps; "data" stays
\* bound to the snapshot (or None) until the next fetch_all_data returns,
\* fetch_all_data's own locals are gone
Wait ==
    /\ procStatus = "running"
    /\ pollPc = "ticked"
    /\ pollPc' = "fetch"
    /\ price_data' = None
    /\ funding_data' = None
    /\ est_time' = None
    /\ UNCHANGED <<procStatus, looping, reference_643am, refFile, marketFile, bootFile,
                   market_data, log, refLog, wsVars>>

\* the provider's messages while a snapshot is kept: one of each kind
SnapStream ==
    [n \in 1..(MaxHistory + MaxBurst) |->
        FewMessages(n) \cup
        { Order(Text("ETHUSDT"), Text("BUY"), NumStr(2), NumStr(60000), Num(EventTime(n))) }]

\* a clock that never shows 6:43
OffTimes == { Clock(6, 44, 0) }

NextSnap ==
    \/ Fetched(FewPriceReplies, FewFundingReplies, OffTimes)
    \/ SnapDump
    \/ Wait
    \/ Message(MaxHistory - 1 + MaxBurst, SnapStream)
    \/ Closed

SpecSnap == InitLiq /\ [][NextSnap]_vars

----------------------------------------------------------------------------
(* Both tasks from that history on, captures included *)

NextMix ==
    \/ Fetched(FewPriceReplies, FewFundingReplies, FewTimes)
    \/ RefDump
    \/ SnapDump
    \/ Wait
    \/ Message(MaxHistory - 1 + MaxReceived, SnapStream)
    \/ Closed

SpecMix == InitLiq /\ [][NextMix]_vars

----------------------------------------------------------------------------
(* The poll loop's scoring on its own, from the histories that recording    *)
(* events can leave                                                         *)

\* the program connected, with a stored anchor or none, after the provider
\* sent n significant bitcoin liquidations (n among ns), the first nBuy of
\* them short liquidations, and with nBuy among all of 0..n or just 0 and n
InitAfter(ns, everyMix) ==
    /\ \E n \in ns : \E nBuy \in (IF everyMix THEN 0..n ELSE {0, n}) :
          /\ recent_liquidations = AfterStream("BTCUSDT", nBuy, n)
          /\ received = n
          /\ message = IF n = 0 THEN None ELSE StreamMessage("BTCUSDT", nBuy, n)
    /\ \E file \in { Absent,
                      Whole(JsonDump(Captured([bitcoin |-> PriceData(50000, 2),
                                               ethereum |-> PriceData(3000, -1)],
                                              Clock(6, 43, 0)))) } :
          /\ bootFile = file
          /\ refFile = file
          /\ reference_643am = load_reference_prices(file, NoReference)
    /\ wsPc = "streaming"
    /\ marketFile = Absent
    /\ procStatus = "running"
    /\ looping = TRUE
    /\ pollPc = "fetch"
    /\ price_data = None
    /\ funding_data = None
    /\ est_time = None
    /\ market_data = None
    /\ log = "none"
    /\ refLog = "none"

\* funding rates for which the funding contribution is 0
EvenFundings ==
    { None,
      get_funding_rates([bitcoin |-> Num(Q(15, 1000)), ethereum |-> Num(Q(15, 1000))],
                        [bitcoin |-> None, ethereum |-> None]) }

\* every history of 0 to 21 events, every number of short liquidations
InitSkew == InitAfter(0..(MaxHistory + 1), TRUE)

NextSkew ==
    \/ Fetched(FewPriceReplies, EvenFundings, OffTimes)
    \/ SnapDump
    \/ Sleep

SpecSkew == InitSkew /\ [][NextSkew]_vars

\* get_price_data's answers: each instrument's 24h change positive, zero or
\* negative, prices above, at and below the stored anchor
ScorePrices ==
    { None,
      [bitcoin |-> PriceData(55000, 2), ethereum |-> PriceData(3300, 2)],
      [bitcoin |-> PriceData(50000, 2), ethereum |-> PriceData(3000, -1)],
      [bitcoin |-> PriceData(50000, 0), ethereum |-> PriceData(3000, 2)],
      [bitcoin |-> PriceData(45000, -3), ethereum |-> PriceData(2900, -1)] }

\* lines 135-170: what one exchange's block leaves in the two FundingData:
\* both rates; the first only (the second request raised, or came back
\* empty); the second only (the first came back empty); none
ExchangeReplies(btc, eth) ==
    { [bitcoin |-> Num(btc), ethereum |-> Num(eth)],
      [bitcoin |-> Num(btc), ethereum |-> None],
      [bitcoin |-> None, ethereum |-> Num(eth)],
      [bitcoin |-> None, ethereum |-> None] }

\* get_funding_rates' answers: low, middling, high and negative rates, each
\* exchange answering or failing on its own
ScoreFundings ==
    {None}
    \cup { get_funding_rates(b, y) :
             b \in ExchangeReplies(Q(5, 1000), Q(30, 1000)),
             y \in ExchangeReplies(Q(15, 1000), Q(10, 1000)) }
    \cup { get_funding_rates(b, y) :
             b \in { [bitcoin |-> Num(Q(200, 1000)), ethereum |-> Num(Q(300, 1000))],
                     [bitcoin |-> Num(Q(-200, 1000)), ethereum |-> Num(Q(-100, 1000))] },
             y \in { [bitcoin |-> None, ethereum |-> None] } }

\* no history, or a full one of one side
InitScore == InitAfter({0, MaxHistory}, FALSE)

NextScore ==
    \/ Fetched(ScorePrices, ScoreFundings, OffTimes)
    \/ SnapDump
    \/ Sleep

SpecScore == InitScore /\ [][NextScore]_vars

----------------------------------------------------------------------------
(* Properties *)

\* C1: every per-instrument liquidation history holds at most 20 entries; a
\* history changes only by recording the event of the message just handled;
\* and recording a significant event of the history's instrument appends it,
\* dropping exactly the oldest entry when the history already held 20, the
\* others keeping their order.
C1_HistoryBoundedFifo ==
    [][\A c \in Cryptos :
         LET h == recent_liquidations[c]
             e == LiquidationEvent(message')
             recorded == IF Len(h) = 20 THEN Tail(h) \o <<e>> ELSE h \o <<e>>
         IN  /\ Len(recent_liquidations'[c]) <= 20
             /\ recent_liquidations'[c] # h => recent_liquidations'[c] = recorded
             /\ ( /\ received' = received + 1
                  /\ message' \in WellFormed(received')
                  /\ message'.o.s.v = (IF c = "bitcoin" THEN "BTCUSDT" ELSE "ETHUSDT")
                  /\ message'.o.q.v * message'.o.p.v > 100000 ) =>
                  recent_liquidations'[c] = recorded]_vars

\* C1: a history of 20 entries whose oldest entry has been evicted: it runs
\* from the provider's 2nd event to its 21st
C1_Witness ==
    \E c \in Cryptos :
       /\ Len(recent_liquidations[c]) = 20
       /\ recent_liquidations[c][1].time = FormatTime(EventTime(2))
       /\ recent_liquidations[c][20].time = FormatTime(EventTime(21))

\* C4: a step that handles a malformed message changes no history and
\* leaves the subscription running, and the well-formed message that follows
\* a malformed one is recorded when it is significant and on a recognised
\* symbol.
C4_MalformedSkipped ==
    [][received' = received + 1 =>
         /\ message' \in Malformed(received') =>
              /\ recent_liquidations' = recent_liquidations
              /\ wsPc' = "streaming"
         /\ ( /\ message \in Malformed(received)
              /\ message' \in WellFormed(received')
              /\ message'.o.q.v * message'.o.p.v > 100000
              /\ message'.o.s.v \in {"BTCUSDT", "ETHUSDT"} ) =>
              /\ wsPc' = "streaming"
              /\ \E c \in Cryptos :
                    /\ Len(recent_liquidations'[c]) > 0
                    /\ LET last == recent_liquidations'[c][Len(recent_liquidations'[c])]
                       IN  /\ last.symbol = message'.o.s.v
                           /\ last.side = message'.o.S.v
                           /\ last.time = FormatTime(EventTime(received'))]_vars

\* C4: a liquidation recorded right after a malformed message was skipped:
\* the newest entry is the provider's latest event and the one before it is
\* two events older, the subscription still running
C4_Witness ==
    /\ wsPc = "streaming"
    /\ received = 21
    /\ message \in WellFormed(received)
    /\ \E c \in Cryptos :
          /\ Len(recent_liquidations[c]) = 20
          /\ recent_liquidations[c][20].time = FormatTime(EventTime(21))
          /\ recent_liquidations[c][19].time = FormatTime(EventTime(19))

\* C2: once the subscription coroutine has returned (the connection was lost
\* or could not be made), the subscription eventually streams again or the
\* process stops running.
C2_ReconnectOrExit ==
    (wsPc = "returned") ~> (wsPc = "streaming" \/ procStatus # "running")

\* C3: once scheduled_fetch runs, no step ends it or the process, whatever
\* the tick brought (a skipped fetch, a capture, an exception in scoring, a
\* failed save): the task stays inside the loop, and the end of a tick is
\* followed by the wait for the next one.
C3_PollLoopNeverTerminates ==
    [][(looping /\ procStatus = "running") =>
         /\ looping'
         /\ procStatus' = "running"
         /\ pollPc' \in {"fetch", "ref_dump", "snap_dump", "ticked"}
         /\ pollPc = "ticked" => pollPc' = "fetch"]_vars

\* C3: a tick of the loop ended in an exception out of fetch_all_data and the
\* loop is about to sleep and go on
C3_Witness ==
    /\ looping
    /\ procStatus = "running"
    /\ pollPc = "ticked"
    /\ log = "error"

\* C5 as stated: at the end of a tick, emission was skipped only if both the
\* price fetch and the funding fetch failed.
C5_SkipOnlyOnTotalFailure ==
    (pollPc \in {"ticked", "spawn"} /\ log = "skipped") =>
        (price_data = None /\ funding_data = None)

\* C5 amended: at the end of a tick, emission was skipped for want of data
\* exactly if the price fetch or the funding fetch as a whole failed; with
\* both answers, a funding answer that lacks an exchange's rates included,
\* and no exception in scoring, a snapshot carrying that funding answer was
\* built and handed to save_data_to_json.
C5_SkipOnAnyFailure ==
    pollPc \in {"ticked", "spawn"} =>
        /\ log = "skipped" <=> (price_data = None \/ funding_data = None)
        /\ (price_data # None /\ funding_data # None /\ log # "error") =>
              /\ market_data # None
              /\ market_data.funding_rates = funding_data
              /\ log \in {"saved", "save_error"}

\* C5: a tick in which one exchange gave no rates ended with the snapshot
\* saved, the partial funding answer in it
C5_Witness ==
    /\ pollPc = "ticked"
    /\ funding_data # None
    /\ funding_data.bitcoin.bybit = None
    /\ funding_data.bitcoin.binance # None
    /\ log = "saved"
    /\ marketFile = Whole(MarketDoc(market_data))
    /\ market_data.funding_rates.bitcoin.bybit = None

C7_StoredEqualsMemory ==
    refLog \in {"saved", "error"} =>
        /\ Parses(refFile)
        /\ JsonLoad(refFile.doc) = reference_643am

\* C7 amended: once a capture has completed and save_reference_prices did not
\* fail, the stored anchor parses and a restart would load exactly the
\* in-memory anchor.
C7_StoredEqualsMemoryWhenSaved ==
    refLog = "saved" =>
        /\ Parses(refFile)
        /\ load_reference_prices(refFile, NoReference) = reference_643am
        /\ reference_643am.timestamp.t = "iso"

\* C7: a capture was saved and the program is between ticks
C7_Witness ==
    /\ refLog = "saved"
    /\ pollPc = "fetch"
    /\ looping
    /\ refFile # bootFile
    /\ reference_643am.bitcoin = Num(50000)

\* C8: the anchor's timestamp is set if and only if both its prices are.
C8_SetTogether ==
    /\ reference_643am.shape = "dict"
    /\ reference_643am.timestamp # None <=>
         (reference_643am.bitcoin # None /\ reference_643am.ethereum # None)

\* C9: when the stored anchor found at startup is absent or is not a
\* well-formed anchor, the anchor is undefined when the first tick starts
\* and the process does not die.
C9_LoadNeverFatal ==
    ~WellFormedReference(bootFile) =>
        /\ (~looping /\ pollPc = "fetch") => reference_643am = NoReference
        /\ procStatus = "running"

\* C10: at every instant each file the program writes is the file found at
\* startup or holds one whole document.
C10_NoPartialFile ==
    /\ refFile = bootFile \/ Parses(refFile)
    /\ marketFile = Absent \/ Parses(marketFile)

\* C11: a step that changes a liquidation history (an event recorded, an
\* entry evicted) changes nothing in the liquidation sequences of the
\* snapshot the poll loop holds: every sequence reads as it read before.
C11_SnapshotIsCopy ==
    [][(market_data # None /\ recent_liquidations' # recent_liquidations) =>
         /\ market_data' # None
         /\ \A c \in Cryptos :
               ListContents(market_data'.liquidations[c], recent_liquidations') =
               ListContents(market_data.liquidations[c], recent_liquidations)]_vars

\* C11: the snapshot was built from 19 bitcoin liquidations; since then two
\* more were recorded and the oldest evicted, and the snapshot still holds
\* the 19 it was built from
C11_Witness ==
    /\ market_data # None
    /\ Len(recent_liquidations.bitcoin) = 20
    /\ recent_liquidations.bitcoin[1].time = FormatTime(EventTime(2))
    /\ Len(ListContents(market_data.liquidations.bitcoin, recent_liquidations)) = 19
    /\ ListContents(market_data.liquidations.bitcoin, recent_liquidations)[1].time =
         FormatTime(EventTime(1))
\* C12 as stated: handling a well-formed message stores its event as the
\* newest entry of a history exactly if the value is 100,000 or more and the
\* history is that of the message's symbol; a history that does not store it
\* is unchanged, and the subscription goes on.
C12_StoredIffAtLeastThreshold ==
    [][(received' = received + 1 /\ message' \in WellFormed(received')) =>
         LET sym == message'.o.s.v
             value == message'.o.q.v * message'.o.p.v
             event == [symbol |-> sym, side |-> message'.o.S.v,
                       quantity |-> message'.o.q.v, price |-> message'.o.p.v,
                       value |-> value, time |-> FormatTime(EventTime(received')),
                       exchange |-> "Binance"]
             stored(c) == /\ Len(recent_liquidations'[c]) > 0
                          /\ recent_liquidations'[c][Len(recent_liquidations'[c])] = event
         IN  /\ wsPc' = "streaming"
             /\ \A c \in Cryptos :
                   /\ stored(c) <=>
                        /\ value >= 100000
                        /\ sym = (IF c = "bitcoin" THEN "BTCUSDT" ELSE "ETHUSDT")
                   /\ ~stored(c) => recent_liquidations'[c] = recent_liquidations[c]]_vars

\* C12 amended: handling a well-formed message stores its event as the
\* newest entry of a history exactly if the value is above 100,000 and the
\* history is that of the message's symbol (BTCUSDT, ETHUSDT); a history
\* that does not store it is unchanged (so an event of value 100,000 or less,
\* or on another symbol, changes none), and the subscription goes on.
C12_StoredIffAboveThreshold ==
    [][(received' = received + 1 /\ message' \in WellFormed(received')) =>
         LET sym == message'.o.s.v
             value == message'.o.q.v * message'.o.p.v
             event == [symbol |-> sym, side |-> message'.o.S.v,
                       quantity |-> message'.o.q.v, price |-> message'.o.p.v,
                       value |-> value, time |-> FormatTime(EventTime(received')),
                       exchange |-> "Binance"]
             stored(c) == /\ Len(recent_liquidations'[c]) > 0
                          /\ recent_liquidations'[c][Len(recent_liquidations'[c])] = event
         IN  /\ wsPc' = "streaming"
             /\ \A c \in Cryptos :
                   /\ stored(c) <=>
                        /\ value > 100000
                        /\ sym = (IF c = "bitcoin" THEN "BTCUSDT" ELSE "ETHUSDT")
                   /\ ~stored(c) => recent_liquidations'[c] = recent_liquidations[c]]_vars

\* C12: a BTCUSDT liquidation of value exactly 100,000 has just been handled
\* and the bitcoin history does not hold it
C12_Witness ==
    /\ received = 20
    /\ message \in WellFormed(received)
    /\ message.o.s.v = "BTCUSDT"
    /\ message.o.q.v * message.o.p.v = 100000
    /\ Len(recent_liquidations.bitcoin) = 19
    /\ recent_liquidations.bitcoin[19].time = FormatTime(EventTime(19))
    /\ wsPc = "streaming"
\* C13: for the bitcoin history of every state, the liquidation contribution
\* to the score is 0 for an empty history and otherwise lies in [-30, 30],
\* is -30 when every entry is a long liquidation (SELL), 30 when every entry
\* is a short liquidation (BUY) and 0 when there are as many of one as of the
\* other.
C13_SkewContribution ==
    LET h == recent_liquidations.bitcoin
        longs == Cardinality({i \in 1..Len(h) : h[i].side = "SELL"})
        shorts == Cardinality({i \in 1..Len(h) : h[i].side = "BUY"})
        term == LiquidationTerm(h)
    IN  /\ Len(h) = 0 => term = <<0, 1>>
        /\ Len(h) > 0 =>
              /\ term[2] > 0
              /\ -30 * term[2] <= term[1]
              /\ term[1] <= 30 * term[2]
              /\ longs = Len(h) => term = <<-30, 1>>
              /\ shorts = Len(h) => term = <<30, 1>>
              /\ longs = shorts => term = <<0, 1>>

\* C13: a snapshot was scored from a full history of 20 short liquidations,
\* the other three contributions cancelling: the score is 30
C13_Witness ==
    /\ market_data # None
    /\ Len(recent_liquidations.bitcoin) = 20
    /\ \A i \in 1..20 : recent_liquidations.bitcoin[i].side = "BUY"
    /\ price_data.bitcoin.change_24h > 0
    /\ price_data.ethereum.change_24h <= 0
    /\ funding_data.bitcoin.average = Num(<<3, 200>>)
    /\ funding_data.ethereum.average = Num(<<3, 200>>)
    /\ reference_643am = NoReference
    /\ market_data.sentiment_score = 30
\* C14: the score of every snapshot is an integer nearest to the sum of the
\* four contributions worked out from what the snapshot holds: the skew of
\* its bitcoin liquidations; -25, 25 or (0.015 - avgFunding) * 1250 by the
\* mean avgFunding of its two funding averages, an absent one counting 0;
\* 12.5 or -12.5 per instrument by the sign of its 24h change; 20 or -20 by
\* the mean of the two deviations from its anchor when both are defined, else
\* 0.  And BTC +2%, ETH -1%, funding averages 0.005 and 0.03, no liquidation
\* and no anchor give -3.
C14_ScoreIsRoundedSum ==
    market_data # None =>
      LET snap == market_data
          score == snap.sentiment_score
          h == snap.liquidations.bitcoin
          longs == Cardinality({i \in 1..Len(h) : h[i].side = "SELL"})
          shorts == Cardinality({i \in 1..Len(h) : h[i].side = "BUY"})
          skew == IF longs + shorts = 0 THEN <<0, 1>>
                  ELSE QMul(QSub(Q(shorts, longs + shorts), <<1, 2>>), <<60, 1>>)
          avgOf(c) == IF snap.funding_rates[c].average = None THEN <<0, 1>>
                      ELSE snap.funding_rates[c].average.v
          avgFunding == QDiv(QAdd(avgOf("bitcoin"), avgOf("ethereum")), <<2, 1>>)
          funding == IF QLess(<<1, 50>>, avgFunding) THEN <<-25, 1>>
                     ELSE IF QLess(avgFunding, <<1, 100>>) THEN <<25, 1>>
                     ELSE QMul(QSub(<<3, 200>>, avgFunding), <<1250, 1>>)
          mom(c) == IF snap[c].change_24h > 0 THEN <<25, 2>> ELSE <<-25, 2>>
          momentum == QAdd(mom("bitcoin"), mom("ethereum"))
          anchor == snap.reference_643am
          defined == anchor.bitcoin # None /\ anchor.ethereum # None
          dev(c) == QMul(QDiv(<<snap[c].price - anchor[c].v, 1>>, <<anchor[c].v, 1>>),
                         <<100, 1>>)
          reference == IF ~defined THEN <<0, 1>>
                       ELSE IF QLess(<<0, 1>>,
                                     QDiv(QAdd(dev("bitcoin"), dev("ethereum")), <<2, 1>>))
                            THEN <<20, 1>> ELSE <<-20, 1>>
          total == QAdd(QAdd(skew, funding), QAdd(momentum, reference))
      IN  /\ score \in Int
          /\ 2 * Abs(score * total[2] - total[1]) <= total[2]
          /\ ( /\ snap.bitcoin.change_24h = 2
               /\ snap.ethereum.change_24h = -1
               /\ snap.funding_rates.bitcoin.average = Num(<<1, 200>>)
               /\ snap.funding_rates.ethereum.average = Num(<<3, 100>>)
               /\ Len(h) = 0
               /\ ~defined ) => score = -3

\* C14: the snapshot of the example: BTC +2%, ETH -1%, funding averages
\* 0.005 and 0.03, no liquidation, no anchor, scored -3
C14_Witness ==
    /\ market_data # None
    /\ market_data.bitcoin.change_24h = 2
    /\ market_data.ethereum.change_24h = -1
    /\ market_data.funding_rates.bitcoin.average = Num(<<1, 200>>)
    /\ market_data.funding_rates.ethereum.average = Num(<<3, 100>>)
    /\ Len(market_data.liquidations.bitcoin) = 0
    /\ market_data.reference_643am = NoReference
    /\ market_data.sentiment_score = -3
\* C15: the score of every snapshot is an integer from -105 to 105.
C15_ScoreInRange ==
    market_data # None =>
        /\ market_data.sentiment_score \in Int
        /\ market_data.sentiment_score >= -105
        /\ market_data.sentiment_score <= 105

\* C15: a snapshot in which every contribution is at its highest: 20 short
\* liquidations, negative funding, both 24h changes positive, both prices
\* above the anchor; its score is 100
C15_Witness ==
    /\ market_data # None
    /\ Len(market_data.liquidations.bitcoin) = 20
    /\ market_data.funding_rates.bitcoin.average = Num(<<-1, 5>>)
    /\ market_data.bitcoin.change_24h > 0
    /\ market_data.ethereum.change_24h > 0
    /\ market_data.reference_643am.bitcoin = Num(50000)
    /\ market_data.bitcoin.price = 55000
    /\ market_data.sentiment_score = 100
\* C16: for each instrument, whenever the anchor is what __init__ or a
\* capture leaves (no price, or a price that is a non-negative number),
\* working out the deviation does not fail, it is undefined exactly if the
\* anchor has no price for the instrument, and otherwise it is
\* (currentPrice - anchorPrice) / anchorPrice * 100, which is 10 for anchor
\* 50000 and current price 55000; and a tick that got both answers with
\* such an anchor does not end in an exception.
C16_DeviationWithoutFailing ==
    LET ref == reference_643am
    IN  ( /\ ref.shape = "dict"
          /\ \A c \in Cryptos :
                ref[c] = None \/ (ref[c].t = "num" /\ ref[c].v >= 0) ) =>
            /\ \A c \in Cryptos :
                  /\ ~ChangeRaises(ref, c)
                  /\ ref[c] = None <=> calculate_change_from_643am(ref, 55000, c) = None
                  /\ ref[c] # None =>
                        LET d == calculate_change_from_643am(ref, 55000, c).v
                        IN  /\ d[1] * ref[c].v = (55000 - ref[c].v) * 100 * d[2]
                            /\ ref[c].v = 50000 => d = <<10, 1>>
            /\ (price_data # None /\ funding_data # None) =>
                  log \notin {"error", "traceback"}
\* C17: in every answer of get_funding_rates, each instrument's average is
\* defined exactly if one of its per-source rates (binance, bybit, okx) is
\* present, and then the average times the number of present rates is their
\* sum.
C17_AverageOfPresentRates ==
    funding_data # None =>
      \A c \in Cryptos :
        LET fd == funding_data[c]
            present == {k \in {"binance", "bybit", "okx"} : fd[k] # None}
            rate(k) == IF fd[k] = None THEN <<0, 1>> ELSE fd[k].v
            sum == QAdd(rate("binance"), QAdd(rate("bybit"), rate("okx")))
        IN  /\ fd.average # None <=> present # {}
            /\ fd.average # None =>
                  QMul(fd.average.v, <<Cardinality(present), 1>>) = sum

\* C17: one exchange answered for bitcoin only and the other failed: the
\* bitcoin average is that one rate and the ethereum average is undefined
C17_Witness ==
    /\ funding_data # None
    /\ funding_data.bitcoin.binance = Num(<<1, 200>>)
    /\ funding_data.bitcoin.bybit = None
    /\ funding_data.bitcoin.average = Num(<<1, 200>>)
    /\ funding_data.ethereum.binance = None
    /\ funding_data.ethereum.bybit = None
    /\ funding_data.ethereum.average = None
\* C18: a step that builds a snapshot puts into it the histories and the
\* anchor as they are at that step, whatever the subscription recorded and
\* the tick captured before, and the score worked out from them; and the
\* score of the snapshot the loop holds is the score of what the snapshot
\* itself holds, whatever is recorded or captured afterwards.
C18_SnapshotConsistent ==
    [][market_data' # None =>
         LET snap == market_data'
             own(c) == ListContents(snap.liquidations[c], recent_liquidations')
         IN  /\ snap.sentiment_score =
                   calculate_sentiment_score(
                       [bitcoin |-> snap.bitcoin, ethereum |-> snap.ethereum],
                       snap.funding_rates,
                       [c \in Cryptos |-> own(c)],
                       snap.reference_643am)
             /\ market_data' # market_data =>
                   /\ \A c \in Cryptos : own(c) = recent_liquidations'[c]
                   /\ snap.reference_643am = reference_643am'
                   /\ snap.sentiment_score =
                         calculate_sentiment_score(price_data', funding_data',
                                                   recent_liquidations', reference_643am')]_vars

\* C18: a snapshot built in a tick that captured the anchor, after a
\* liquidation was recorded, and kept while the loop sleeps: it holds the
\* 20 liquidations and the new anchor, and its score counts both
C18_Witness ==
    /\ market_data # None
    /\ pollPc = "fetch"
    /\ refLog = "saved"
    /\ market_data.reference_643am.bitcoin = Num(50000)
    /\ Len(market_data.liquidations.bitcoin) = 20
    /\ market_data.liquidations.bitcoin[20].time = FormatTime(EventTime(20))
    /\ \A i \in 1..20 : market_data.liquidations.bitcoin[i].side = "SELL"
    /\ market_data.funding_rates.bitcoin.average = Num(<<1, 200>>)
    /\ market_data.sentiment_score = -53
\* C19: a step that changes the anchor, or its file, belongs to a tick in
\* which both the price fetch and the funding fetch gave an answer; a step
\* that skips the tick for want of an answer changes neither; and a step
\* that handles a message of the liquidation stream changes neither.
C19_AnchorChangesOnlyInFullTick ==
    [][/\ reference_643am' # reference_643am =>
            /\ pollPc = "fetch"
            /\ price_data' # None
            /\ funding_data' # None
       /\ refFile' # refFile =>
            /\ pollPc \in {"fetch", "ref_dump"}
            /\ price_data' # None
            /\ funding_data' # None
       /\ (pollPc = "fetch" /\ pollPc' # "fetch"
             /\ (price_data' = None \/ funding_data' = None)) =>
            /\ log' = "skipped"
            /\ reference_643am' = reference_643am
            /\ refFile' = refFile
       /\ received' # received =>
            /\ reference_643am' = reference_643am
            /\ refFile' = refFile]_vars

\* C19: after a capture was saved and a liquidation recorded since the
\* start, a tick in which only the funding fetch failed was skipped: the
\* anchor and its file are the captured ones
C19_Witness ==
    /\ log = "skipped"
    /\ price_data # None
    /\ funding_data = None
    /\ received = 20
    /\ Len(recent_liquidations.bitcoin) = 20
    /\ refLog = "saved"
    /\ reference_643am.bitcoin = Num(50000)
    /\ reference_643am.timestamp = Iso(Clock(6, 43, 0))
    /\ refFile = Whole(ReferenceDoc(reference_643am))
====
